---- MODULE Spec2Model ----
(***************************************************************************)
(* Model of the card-memory-helper widget (CardMemoryHelper component of   *)
(* src/unnamed/part_000): the grid / lock / history manager and the layout *)
(* manager.  A cell id `cell-<i>` is modelled by the integer i.  A card is *)
(* modelled by its id; Icon and color never reach the logic.  The grid is  *)
(* a sequence of [cell, id] pairs in key insertion order, the order in     *)
(* which Object.entries enumerates the non-index string keys of the JS     *)
(* object.  activeCard only feeds the drag overlay and is left out.        *)
(***************************************************************************)
EXTENDS Integers, Sequences, FiniteSets, TLC

VARIABLES rows, cols, grid, lockedCells, history, showWarning, pendingLayout,
          selectedCard

vars == <<rows, cols, grid, lockedCells, history, showWarning, pendingLayout,
          selectedCard>>

(* ------------------------------ bounds --------------------------------- *)

\* place / remove are taken only while the history is shorter than this
MaxHist == 3
\* the same cap for the deeper exploration of SpecDeep
DeepHist == MaxHist + 1

(* ----------------------------- constants ------------------------------- *)

CARD_ICONS ==
  <<"wine", "anchor", "music", "ship", "gem", "compass", "search",
    "sparkles", "sailboat">>

PRESET_LAYOUTS ==
  << [rows |-> 2, cols |-> 4], [rows |-> 2, cols |-> 5],
     [rows |-> 2, cols |-> 7], [rows |-> 2, cols |-> 8],
     [rows |-> 3, cols |-> 4], [rows |-> 3, cols |-> 6],
     [rows |-> 3, cols |-> 8] >>

\* the id the handlers compare against to recognise the lock card
LockId == "lock"

\* null / undefined
Null == -1
NoCard == "undefined"
NoLayout == [rows |-> 0, cols |-> 0, none |-> TRUE]

\* texts typed into the rows and the cols number input, as character sequences
RowTexts == { <<"2">> }
ColTexts == { <<"0">> }

\* cells of the grid that are clicked, dropped on or double clicked:
\* cell-0, cell-1, cell-2
TargetCells == { 0, 1, 2 }

\* cards of the pool that are dragged
PoolCards == { CARD_ICONS[1], CARD_ICONS[2] }

\* cards of the pool that are clicked
ClickCards == { CARD_ICONS[1] }

\* ids carried by a drag event: pool cards and an id the catalog lacks
DragIds == PoolCards \cup { LockId }

\* layouts picked in the select
PickedLayouts == { PRESET_LAYOUTS[1] }

(* --------------------------- state records ----------------------------- *)

Cur ==
  [ rows |-> rows, cols |-> cols, grid |-> grid, lockedCells |-> lockedCells,
    history |-> history, showWarning |-> showWarning,
    pendingLayout |-> pendingLayout, selectedCard |-> selectedCard ]

Commit(s) ==
  /\ rows' = s.rows
  /\ cols' = s.cols
  /\ grid' = s.grid
  /\ lockedCells' = s.lockedCells
  /\ history' = s.history
  /\ showWarning' = s.showWarning
  /\ pendingLayout' = s.pendingLayout
  /\ selectedCard' = s.selectedCard

(* ---------------------------- grid object ------------------------------ *)

\* grid[cellId] !== undefined
GridHas(g, c) == \E i \in 1..Len(g) : g[i].cell = c

\* grid[cellId]
GridGet(g, c) ==
  IF GridHas(g, c)
    THEN g[CHOOSE i \in 1..Len(g) : g[i].cell = c].id
    ELSE NoCard

\* { ...prev, [cellId]: card }: an existing key keeps its position
GridSet(g, c, id) ==
  IF GridHas(g, c)
    THEN [ i \in 1..Len(g) |->
             IF g[i].cell = c THEN [cell |-> c, id |-> id] ELSE g[i] ]
    ELSE Append(g, [cell |-> c, id |-> id])

\* delete newGrid[cellId]
GridDelete(g, c) == SelectSeq(g, LAMBDA e : e.cell # c)

\* the grid as a mapping, forgetting key order
GridMap(g) == { <<g[i].cell, g[i].id>> : i \in 1..Len(g) }

GridKeys(g) == { g[i].cell : i \in 1..Len(g) }

\* Object.keys(grid).length > 0
hasCards(s) == Len(s.grid) > 0

\* rows * cols; Array.from({length}) is empty for a length below 1
totalCells(s) == s.rows * s.cols

\* the rendered cells among the target cells
cells(s) == { i \in TargetCells : i < totalCells(s) }

(* --------------------------- matching search --------------------------- *)

\* CARD_ICONS.find((c) => c.id === id) !== undefined
InCatalog(id) == \E i \in 1..Len(CARD_ICONS) : CARD_ICONS[i] = id

\* index of the first grid entry, in iteration order, other than
\* excludeCellId, holding cardId, whose lock flag equals wantLocked; 0 if none
FirstMatchIndex(s, cardId, excludeCellId, wantLocked) ==
  LET hits == { i \in 1..Len(s.grid) :
                  /\ s.grid[i].cell # excludeCellId
                  /\ s.grid[i].id = cardId
                  /\ (s.grid[i].cell \in s.lockedCells) = wantLocked }
  IN IF hits = {} THEN 0 ELSE CHOOSE i \in hits : \A j \in hits : i <= j

\* findMatchingCard returning the last match of the iteration, not the first
findMatchingCard_LastMatch(s, cardId, excludeCellId) ==
  LET hits == { i \in 1..Len(s.grid) :
                  /\ s.grid[i].cell # excludeCellId
                  /\ s.grid[i].id = cardId
                  /\ s.grid[i].cell \notin s.lockedCells }
  IN IF hits = {} THEN Null
     ELSE s.grid[CHOOSE i \in hits : \A j \in hits : i >= j].cell

\* findMatchingCard without the `!lockedCells[cellId]` test
findMatchingCard_IgnoresLocks(s, cardId, excludeCellId) ==
  LET hits == { i \in 1..Len(s.grid) :
                  /\ s.grid[i].cell # excludeCellId
                  /\ s.grid[i].id = cardId }
  IN IF hits = {} THEN Null
     ELSE s.grid[CHOOSE i \in hits : \A j \in hits : i <= j].cell

findMatchingCard(s, cardId, excludeCellId) ==
  LET i == FirstMatchIndex(s, cardId, excludeCellId, FALSE)
  IN IF i = 0 THEN Null ELSE s.grid[i].cell

findLockedMatchingCard(s, cardId, excludeCellId) ==
  LET i == FirstMatchIndex(s, cardId, excludeCellId, TRUE)
  IN IF i = 0 THEN Null ELSE s.grid[i].cell

(* --------------------------- history entries --------------------------- *)

\* PlaceEntry with the type fixed to "add"
PlaceEntry_AlwaysAdd(cellId, card, previousCard, lockedCellId) ==
  [ type |-> "add",
    cellId |-> cellId, card |-> card, previousCard |-> previousCard,
    lockedCellId |-> lockedCellId, wasLocked |-> FALSE ]

\* { type: previousCard ? "replace" : "add", cellId, card, previousCard,
\*   lockedCellId, wasLocked: false }
PlaceEntry(cellId, card, previousCard, lockedCellId) ==
  [ type |-> IF previousCard # NoCard THEN "replace" ELSE "add",
    cellId |-> cellId, card |-> card, previousCard |-> previousCard,
    lockedCellId |-> lockedCellId, wasLocked |-> FALSE ]

\* RemoveEntry recording wasLocked: true
RemoveEntry_RecordsLocked(cellId, card, lockedCellId) ==
  [ type |-> "remove", cellId |-> cellId, card |-> card,
    previousCard |-> NoCard, lockedCellId |-> lockedCellId,
    wasLocked |-> TRUE ]

\* { type: "remove", cellId, card, wasLocked: false,
\*   lockedCellId: lockedMatchingCellId || undefined }
RemoveEntry(cellId, card, lockedCellId) ==
  [ type |-> "remove", cellId |-> cellId, card |-> card,
    previousCard |-> NoCard, lockedCellId |-> lockedCellId,
    wasLocked |-> FALSE ]

(* ------------------------------ handlers -------------------------------- *)

\* setSelectedCard((prev) => (prev?.id === card.id ? null : card))
handleCardClick(s, card) ==
  [s EXCEPT !.selectedCard = IF s.selectedCard = card THEN NoCard ELSE card]

\* handleCellClick without the search for a matching card
handleCellClick_SkipsMatching(s, cellId) ==
  IF s.selectedCard = NoCard THEN s
  ELSE IF cellId \in s.lockedCells THEN s
  ELSE
    LET previousCard == GridGet(s.grid, cellId)
        card == s.selectedCard
    IN [s EXCEPT !.grid = GridSet(@, cellId, card),
                 !.lockedCells = IF card = LockId THEN @ \cup {cellId} ELSE @,
                 !.history = Append(@,
                    PlaceEntry(cellId, card, previousCard, Null)),
                 !.selectedCard = NoCard]

\* the placement shared, statement for statement, by click and drop
handleCellClick(s, cellId) ==
  IF s.selectedCard = NoCard THEN s
  ELSE IF cellId \in s.lockedCells THEN s
  ELSE
    LET previousCard == GridGet(s.grid, cellId)
        card == s.selectedCard
        newGrid == GridSet(s.grid, cellId, card)
        matchingCellId == findMatchingCard(s, card, cellId)
    IN IF card = LockId
         THEN [s EXCEPT !.grid = newGrid,
                        !.lockedCells = @ \cup {cellId},
                        !.history = Append(@,
                           PlaceEntry(cellId, card, previousCard, Null)),
                        !.selectedCard = NoCard]
       ELSE IF matchingCellId # Null
         THEN [s EXCEPT !.grid = newGrid,
                        !.lockedCells = @ \cup {cellId, matchingCellId},
                        !.history = Append(@,
                           PlaceEntry(cellId, card, previousCard,
                                      matchingCellId)),
                        !.selectedCard = NoCard]
       ELSE [s EXCEPT !.grid = newGrid,
                      !.history = Append(@,
                         PlaceEntry(cellId, card, previousCard, Null)),
                      !.selectedCard = NoCard]

\* setActiveCard(card || null); setSelectedCard(null)
handleDragStart(s, activeId) == [s EXCEPT !.selectedCard = NoCard]

handleDragEnd(s, activeId, overId) ==
  IF overId = Null THEN s
  ELSE IF ~InCatalog(activeId) THEN s
  ELSE IF overId \in s.lockedCells THEN s
  ELSE
    LET cellId == overId
        card == activeId
        previousCard == GridGet(s.grid, cellId)
        newGrid == GridSet(s.grid, cellId, card)
        matchingCellId == findMatchingCard(s, card, cellId)
    IN IF card = LockId
         THEN [s EXCEPT !.grid = newGrid,
                        !.lockedCells = @ \cup {cellId},
                        !.history = Append(@,
                           PlaceEntry(cellId, card, previousCard, Null))]
       ELSE IF matchingCellId # Null
         THEN [s EXCEPT !.grid = newGrid,
                        !.lockedCells = @ \cup {cellId, matchingCellId},
                        !.history = Append(@,
                           PlaceEntry(cellId, card, previousCard,
                                      matchingCellId))]
       ELSE [s EXCEPT !.grid = newGrid,
                      !.history = Append(@,
                         PlaceEntry(cellId, card, previousCard, Null))]

\* handleRemoveCard that records the locked partner and leaves it locked
handleRemoveCard_KeepsPartnerLocked(s, cellId) ==
  LET card == GridGet(s.grid, cellId)
  IN IF card # NoCard /\ cellId \notin s.lockedCells
       THEN [s EXCEPT !.grid = GridDelete(@, cellId),
                      !.history = Append(@,
                         RemoveEntry(cellId, card,
                                     findLockedMatchingCard(s, card, cellId)))]
       ELSE s

\* handleRemoveCard without its setHistory call
handleRemoveCard_Unrecorded(s, cellId) ==
  LET card == GridGet(s.grid, cellId)
  IN IF card # NoCard /\ cellId \notin s.lockedCells
       THEN LET lockedMatchingCellId ==
                  findLockedMatchingCard(s, card, cellId)
            IN [s EXCEPT !.grid = GridDelete(@, cellId),
                         !.lockedCells =
                            IF lockedMatchingCellId # Null
                              THEN @ \ {lockedMatchingCellId} ELSE @]
       ELSE s

\* handleRemoveCard with the lock test of its guard dropped
handleRemoveCard_IgnoresLock(s, cellId) ==
  LET card == GridGet(s.grid, cellId)
  IN IF card # NoCard
       THEN LET lockedMatchingCellId ==
                  findLockedMatchingCard(s, card, cellId)
            IN [s EXCEPT !.grid = GridDelete(@, cellId),
                         !.lockedCells =
                            IF lockedMatchingCellId # Null
                              THEN @ \ {lockedMatchingCellId} ELSE @,
                         !.history = Append(@,
                            RemoveEntry(cellId, card, lockedMatchingCellId))]
       ELSE s

handleRemoveCard(s, cellId) ==
  LET card == GridGet(s.grid, cellId)
  IN IF card # NoCard /\ cellId \notin s.lockedCells
       THEN LET lockedMatchingCellId ==
                  findLockedMatchingCard(s, card, cellId)
            IN [s EXCEPT !.grid = GridDelete(@, cellId),
                         !.lockedCells =
                            IF lockedMatchingCellId # Null
                              THEN @ \ {lockedMatchingCellId} ELSE @,
                         !.history = Append(@,
                            RemoveEntry(cellId, card, lockedMatchingCellId))]
       ELSE s

\* handleDoubleClick that locks an occupied cell that is not locked
handleDoubleClick_Toggles(s, cellId) ==
  IF cellId \in s.lockedCells
    THEN LET card == GridGet(s.grid, cellId)
             lockedMatchingCellId ==
               IF card # NoCard /\ card # LockId
                 THEN findLockedMatchingCard(s, card, cellId) ELSE Null
         IN [s EXCEPT !.lockedCells =
               IF lockedMatchingCellId # Null
                 THEN (@ \ {cellId}) \ {lockedMatchingCellId}
                 ELSE @ \ {cellId}]
    ELSE IF GridHas(s.grid, cellId)
      THEN [s EXCEPT !.lockedCells = @ \cup {cellId}]
    ELSE s

\* handleDoubleClick that also takes the unlocked card off the grid
handleDoubleClick_RemovesCard(s, cellId) ==
  IF cellId \in s.lockedCells
    THEN [s EXCEPT !.grid = GridDelete(@, cellId),
                   !.lockedCells = @ \ {cellId}]
    ELSE s

\* handleDoubleClick returning an empty lockedCells instead of newLocked
handleDoubleClick_ClearsAllLocks(s, cellId) ==
  IF cellId \in s.lockedCells
    THEN [s EXCEPT !.lockedCells = {}]
    ELSE s

\* handleDoubleClick without the search for the locked partner
handleDoubleClick_OwnCellOnly(s, cellId) ==
  IF cellId \in s.lockedCells
    THEN [s EXCEPT !.lockedCells = @ \ {cellId}]
    ELSE s

handleDoubleClick(s, cellId) ==
  IF cellId \in s.lockedCells
    THEN LET card == GridGet(s.grid, cellId)
             lockedMatchingCellId ==
               IF card # NoCard /\ card # LockId
                 THEN findLockedMatchingCard(s, card, cellId) ELSE Null
         IN [s EXCEPT !.lockedCells =
               IF lockedMatchingCellId # Null
                 THEN (@ \ {cellId}) \ {lockedMatchingCellId}
                 ELSE @ \ {cellId}]
    ELSE s

\* UndoUnlock forgetting `delete newLocked[lastAction.lockedCellId!]`
UndoUnlock_OwnCellOnly(locked, lastAction) ==
  locked \ {lastAction.cellId}

\* UndoUnlock forgetting `delete newLocked[lastAction.cellId]`
UndoUnlock_PartnerOnly(locked, lastAction) ==
  IF lastAction.lockedCellId # Null
    THEN locked \ {lastAction.lockedCellId}
    ELSE locked

\* the lock clearing shared by the add and the replace branch of handleUndo
UndoUnlock(locked, lastAction) ==
  IF lastAction.lockedCellId # Null
    THEN (locked \ {lastAction.cellId}) \ {lastAction.lockedCellId}
  ELSE IF lastAction.card = LockId \/ lastAction.wasLocked \in BOOLEAN
    THEN locked \ {lastAction.cellId}
  ELSE locked

\* UndoEntry whose add branch leaves the card on the grid
UndoEntry_KeepsCard(s, lastAction) ==
  LET popped == SubSeq(s.history, 1, Len(s.history) - 1)
  IN IF lastAction.type = "add"
       THEN [s EXCEPT !.lockedCells = UndoUnlock(@, lastAction),
                      !.history = popped]
     ELSE IF lastAction.type = "remove"
       THEN [s EXCEPT !.grid = GridSet(@, lastAction.cellId,
                                       lastAction.card),
                      !.history = popped]
     ELSE IF lastAction.type = "replace" /\ lastAction.previousCard # NoCard
       THEN [s EXCEPT !.grid = GridSet(@, lastAction.cellId,
                                       lastAction.previousCard),
                      !.lockedCells = UndoUnlock(@, lastAction),
                      !.history = popped]
     ELSE [s EXCEPT !.history = popped]

\* the branch of handleUndo taken for lastAction, and the final
\* setHistory((prev) => prev.slice(0, -1))
UndoEntry(s, lastAction) ==
  LET popped == SubSeq(s.history, 1, Len(s.history) - 1)
  IN IF lastAction.type = "add"
       THEN [s EXCEPT !.grid = GridDelete(@, lastAction.cellId),
                      !.lockedCells = UndoUnlock(@, lastAction),
                      !.history = popped]
     ELSE IF lastAction.type = "remove"
       THEN [s EXCEPT !.grid = GridSet(@, lastAction.cellId,
                                       lastAction.card),
                      !.lockedCells =
                         IF lastAction.wasLocked
                           THEN @ \cup {lastAction.cellId} ELSE @,
                      !.history = popped]
     ELSE IF lastAction.type = "replace" /\ lastAction.previousCard # NoCard
       THEN [s EXCEPT !.grid = GridSet(@, lastAction.cellId,
                                       lastAction.previousCard),
                      !.lockedCells = UndoUnlock(@, lastAction),
                      !.history = popped]
     ELSE [s EXCEPT !.history = popped]

\* handleUndo that treats an empty history as a dismissal of the warning
handleUndo_EmptyDismisses(s) ==
  IF Len(s.history) = 0
    THEN [s EXCEPT !.showWarning = FALSE, !.pendingLayout = NoLayout]
    ELSE UndoEntry(s, s.history[Len(s.history)])

\* handleUndo reading history[0] instead of history[history.length - 1]
handleUndo_OldestFirst(s) ==
  IF Len(s.history) = 0 THEN s
  ELSE UndoEntry(s, s.history[1])

handleUndo(s) ==
  IF Len(s.history) = 0 THEN s
  ELSE UndoEntry(s, s.history[Len(s.history)])

\* handleReset without setLockedCells({})
handleReset_KeepsLocks(s) ==
  [s EXCEPT !.grid = <<>>, !.history = <<>>, !.selectedCard = NoCard]

handleReset(s) ==
  [s EXCEPT !.grid = <<>>, !.lockedCells = {}, !.history = <<>>,
            !.selectedCard = NoCard]

Layout(r, c) == [rows |-> r, cols |-> c, none |-> FALSE]

\* handleLayoutChange without setShowWarning(true)
handleLayoutChange_NoWarning(s, newRows, newCols) ==
  IF hasCards(s)
    THEN [s EXCEPT !.pendingLayout = Layout(newRows, newCols)]
    ELSE [s EXCEPT !.rows = newRows, !.cols = newCols]

\* handleLayoutChange that stages the layout and applies it as well
handleLayoutChange_AppliesAnyway(s, newRows, newCols) ==
  IF hasCards(s)
    THEN [s EXCEPT !.showWarning = TRUE,
                   !.pendingLayout = Layout(newRows, newCols),
                   !.rows = newRows, !.cols = newCols]
    ELSE [s EXCEPT !.rows = newRows, !.cols = newCols]

handleLayoutChange(s, newRows, newCols) ==
  IF hasCards(s)
    THEN [s EXCEPT !.showWarning = TRUE,
                   !.pendingLayout = Layout(newRows, newCols)]
    ELSE [s EXCEPT !.rows = newRows, !.cols = newCols]

\* confirmLayoutChange without setHistory([])
confirmLayoutChange_KeepsHistory(s) ==
  IF ~s.pendingLayout.none
    THEN [s EXCEPT !.rows = s.pendingLayout.rows,
                   !.cols = s.pendingLayout.cols,
                   !.grid = <<>>, !.lockedCells = {},
                   !.selectedCard = NoCard,
                   !.showWarning = FALSE, !.pendingLayout = NoLayout]
    ELSE [s EXCEPT !.showWarning = FALSE, !.pendingLayout = NoLayout]

confirmLayoutChange(s) ==
  IF ~s.pendingLayout.none
    THEN [s EXCEPT !.rows = s.pendingLayout.rows,
                   !.cols = s.pendingLayout.cols,
                   !.grid = <<>>, !.lockedCells = {}, !.history = <<>>,
                   !.selectedCard = NoCard,
                   !.showWarning = FALSE, !.pendingLayout = NoLayout]
    ELSE [s EXCEPT !.showWarning = FALSE, !.pendingLayout = NoLayout]

\* the cancel handler without setPendingLayout(null)
cancelLayoutChange_KeepsPending(s) ==
  [s EXCEPT !.showWarning = FALSE]

\* onClick of the cancel button of the warning dialog
cancelLayoutChange(s) ==
  [s EXCEPT !.showWarning = FALSE, !.pendingLayout = NoLayout]

(* -------------------------- layout text inputs -------------------------- *)

Digits == <<"0", "1", "2", "3", "4", "5", "6", "7", "8", "9">>

IsDigit(ch) == \E d \in 1..10 : Digits[d] = ch

DigitVal(ch) == (CHOOSE d \in 1..10 : Digits[d] = ch) - 1

\* value of the longest digit prefix of txt, acc being the value so far
RECURSIVE ParseDigits(_, _)
ParseDigits(txt, acc) ==
  IF txt = <<>> \/ ~IsDigit(Head(txt)) THEN acc
  ELSE ParseDigits(Tail(txt), 10 * acc + DigitVal(Head(txt)))

\* parseInt(text): optional sign, then the leading digits; NaN without any
parseInt(txt) ==
  LET signed == txt # <<>> /\ Head(txt) \in {"-", "+"}
      body == IF signed THEN Tail(txt) ELSE txt
  IN IF body = <<>> \/ ~IsDigit(Head(body))
       THEN [nan |-> TRUE, val |-> 0]
       ELSE [nan |-> FALSE,
             val |-> IF signed /\ Head(txt) = "-"
                       THEN 0 - ParseDigits(body, 0)
                       ELSE ParseDigits(body, 0)]

\* parseInt(e.target.value) || 1: NaN and 0 are falsy
ParseOrOne(txt) ==
  LET p == parseInt(txt) IN IF p.nan \/ p.val = 0 THEN 1 ELSE p.val

rowsOnChange(s, txt) == handleLayoutChange(s, ParseOrOne(txt), s.cols)

colsOnChange(s, txt) == handleLayoutChange(s, s.rows, ParseOrOne(txt))

\* PRESET_LAYOUTS.find((l) => `${l.rows}x${l.cols}` === value)
onValueChange(s, r, c) ==
  IF \E i \in 1..Len(PRESET_LAYOUTS) :
       PRESET_LAYOUTS[i].rows = r /\ PRESET_LAYOUTS[i].cols = c
    THEN handleLayoutChange(s, r, c)
    ELSE s

(* ------------------------------- actions -------------------------------- *)

Init ==
  /\ rows = 2
  /\ cols = 4
  /\ grid = <<>>
  /\ lockedCells = {}
  /\ history = <<>>
  /\ showWarning = FALSE
  /\ pendingLayout = NoLayout
  /\ selectedCard = NoCard

CardClick ==
  \E card \in ClickCards :
    /\ Commit(handleCardClick(Cur, card))

\* the three handlers that append to the history, taken while it is shorter
\* than cap
CellClickUpTo(cap) ==
  \E c \in cells(Cur) :
    /\ Len(history) < cap
    /\ Commit(handleCellClick(Cur, c))

DragEndUpTo(cap) ==
  \E id \in DragIds, c \in cells(Cur) \cup {Null} :
    /\ Len(history) < cap
    /\ Commit(handleDragEnd(Cur, id, c))

RemoveCardUpTo(cap) ==
  \E c \in cells(Cur) :
    /\ Len(history) < cap
    /\ Commit(handleRemoveCard(Cur, c))

CellClick == CellClickUpTo(MaxHist)

DragStart ==
  \E id \in DragIds :
    /\ Commit(handleDragStart(Cur, id))

DragEnd == DragEndUpTo(MaxHist)

RemoveCard == RemoveCardUpTo(MaxHist)

CellClickDeep == CellClickUpTo(DeepHist)

DragEndDeep == DragEndUpTo(DeepHist)

RemoveCardDeep == RemoveCardUpTo(DeepHist)

DoubleClick ==
  \E c \in cells(Cur) :
    /\ Commit(handleDoubleClick(Cur, c))

Undo ==
  /\ Commit(handleUndo(Cur))

Reset ==
  /\ Commit(handleReset(Cur))

RowsInput ==
  \E txt \in RowTexts :
    /\ Commit(rowsOnChange(Cur, txt))

ColsInput ==
  \E txt \in ColTexts :
    /\ Commit(colsOnChange(Cur, txt))

SelectLayout ==
  \E l \in PickedLayouts :
    /\ Commit(onValueChange(Cur, l.rows, l.cols))

\* the two dialog buttons are rendered only while showWarning holds
ConfirmLayout ==
  /\ showWarning
  /\ Commit(confirmLayoutChange(Cur))

CancelLayout ==
  /\ showWarning
  /\ Commit(cancelLayoutChange(Cur))

Next ==
  \/ CardClick
  \/ CellClick
  \/ DragStart
  \/ DragEnd
  \/ RemoveCard
  \/ DoubleClick
  \/ Undo
  \/ Reset
  \/ RowsInput
  \/ ColsInput
  \/ SelectLayout
  \/ ConfirmLayout
  \/ CancelLayout

Spec == Init /\ [][Next]_vars

\* the same program explored one history entry deeper
NextDeep ==
  \/ CardClick
  \/ CellClickDeep
  \/ DragStart
  \/ DragEndDeep
  \/ RemoveCardDeep
  \/ DoubleClick
  \/ Undo
  \/ Reset
  \/ RowsInput
  \/ ColsInput
  \/ SelectLayout
  \/ ConfirmLayout
  \/ CancelLayout

SpecDeep == Init /\ [][NextDeep]_vars

\* a drag of the one card that is also clicked, or of the id the catalog
\* lacks, ending over a cell or outside the grid
DragEndOneCard ==
  \E id \in ClickCards \cup { LockId }, c \in cells(Cur) \cup {Null} :
    /\ Len(history) < DeepHist
    /\ Commit(handleDragEnd(Cur, id, c))

\* the deeper exploration with every event source and one card sampled for
\* the drags that end on the grid
NextOneCard ==
  \/ CardClick
  \/ CellClickDeep
  \/ DragStart
  \/ DragEndOneCard
  \/ RemoveCardDeep
  \/ DoubleClick
  \/ Undo
  \/ Reset
  \/ RowsInput
  \/ ColsInput
  \/ SelectLayout
  \/ ConfirmLayout
  \/ CancelLayout

SpecOneCard == Init /\ [][NextOneCard]_vars

(* ------------------------- the spec's operations ------------------------ *)

\* every id of the catalog, and the lock id the handlers test for
CatalogIds == { CARD_ICONS[i] : i \in 1..Len(CARD_ICONS) }

\* place(cell, token) as issued by a drop; remove; toggleLock; undo
place(s, cell, token) == handleDragEnd(s, token, cell)

remove(s, cell) == handleRemoveCard(s, cell)

toggleLock(s, cell) == handleDoubleClick(s, cell)

undo(s) == handleUndo(s)

\* tokens tried in a place: the pool cards that reach the grid and a card of
\* the catalog that no cell holds
TriedTokens == PoolCards \cup { CARD_ICONS[3] }

\* Grid Store and Lock Set of two states agree (the grid as a mapping)
SameGridAndLocks(a, b) ==
  /\ GridMap(a.grid) = GridMap(b.grid)
  /\ a.lockedCells = b.lockedCells

SameStores(a, b) ==
  /\ SameGridAndLocks(a, b)
  /\ a.history = b.history

Holders(s, id) == { c \in GridKeys(s.grid) : GridGet(s.grid, c) = id }

\* arguments tried for setLayout
DimArgs == { -1, 3, 11 }

\* texts tried in the number inputs
TypedTexts ==
  { <<>>, <<"0">>, <<"1">>, <<"7">>, <<"1", "0">>, <<"1", "1">>,
    <<"-", "1">>, <<"2", ".", "5">> }

(* -------------------------------- claims -------------------------------- *)

\* C1: pairing invariant: every locked cell holds the lock token or some
\* other locked cell holds a token with the same id.
C1_PairingInvariant ==
  \A c \in lockedCells :
    \/ GridGet(grid, c) = LockId
    \/ \E d \in lockedCells \ {c} :
         GridHas(grid, d) /\ GridGet(grid, d) = GridGet(grid, c)

\* the place / remove calls whose preconditions hold in s
ValidCalls(s) ==
  { [op |-> "place", cell |-> c, id |-> id] :
      c \in cells(s) \ s.lockedCells, id \in PoolCards }
  \cup
  { [op |-> "remove", cell |-> c, id |-> NoCard] :
      c \in (cells(s) \cap GridKeys(s.grid)) \ s.lockedCells }

Call(s, k) ==
  IF k.op = "place" THEN place(s, k.cell, k.id) ELSE remove(s, k.cell)

\* C2: undo inverts exactly: n valid place / remove calls followed by n undo
\* calls give back the Grid Store and the Lock Set they started from
\* (n = 1 and n = 2).
C2_UndoInvertsExactly ==
  \A k1 \in ValidCalls(Cur) :
    LET s1 == Call(Cur, k1)
    IN /\ SameGridAndLocks(undo(s1), Cur)
       /\ \A k2 \in ValidCalls(s1) :
            SameGridAndLocks(undo(undo(Call(s1, k2))), Cur)

\* C3: locked-cell immutability: place (by drop or by click) and remove on a
\* locked cell change neither Grid Store nor Lock Set nor History Log.
C3_LockedCellImmutable ==
  \A c \in lockedCells :
    /\ remove(Cur, c) = Cur
    /\ \A id \in CatalogIds \cup {LockId} :
         /\ place(Cur, c, id) = Cur
         /\ LET clicked == handleCellClick([Cur EXCEPT !.selectedCard = id], c)
            IN /\ clicked.grid = grid
               /\ clicked.lockedCells = lockedCells
               /\ clicked.history = history

\* C3 witness: a rendered cell is occupied and locked, and a remove and a
\* place were tried on it.
C3_Witness ==
  \E c \in lockedCells \cap cells(Cur) :
    /\ GridHas(grid, c)
    /\ Len(remove(Cur, c).history) = Len(history)
    /\ Len(place(Cur, c, CARD_ICONS[1]).history) = Len(history)

\* the outcome of place(A, T); place(B, T); toggleLock(A) from state s
PairThenToggle(s, A, B, T) ==
  LET s1 == place(s, A, T)
      s2 == place(s1, B, T)
      s3 == toggleLock(s2, A)
  IN /\ {A, B} \subseteq s2.lockedCells
     /\ A \notin s3.lockedCells
     /\ B \notin s3.lockedCells

\* C4 as claimed: matching symmetry from any reachable state, for distinct
\* unlocked cells A and B and a catalog token T.
C4_MatchingSymmetry ==
  \A A \in cells(Cur) \ lockedCells, B \in cells(Cur) \ lockedCells :
    \A T \in PoolCards :
      A # B => PairThenToggle(Cur, A, B, T)

\* C4 amended: matching symmetry holds when no cell other than A and B holds
\* a token with id T before the calls.
C4_MatchingSymmetryAlone ==
  \A A \in cells(Cur) \ lockedCells, B \in cells(Cur) \ lockedCells :
    \A T \in PoolCards :
      (A # B /\ Holders(Cur, T) \subseteq {A, B})
        => PairThenToggle(Cur, A, B, T)

\* C4 witness: T was placed at A and then at B, which locked both: the last
\* entry records B with partner A, and no third cell holds T.
C4_Witness ==
  /\ Len(history) >= 2
  /\ LET e == history[Len(history)]
     IN /\ e.lockedCellId # Null
        /\ {e.cellId, e.lockedCellId} \subseteq lockedCells
        /\ Holders(Cur, e.card) = {e.cellId, e.lockedCellId}
        /\ e.lockedCellId \notin toggleLock(Cur, e.cellId).lockedCells

\* C5: layout clear-on-confirm: with a non-empty Grid Store, setLayout(r, c)
\* then confirmPendingLayout gives dimensions (r, c), empty Grid Store, Lock
\* Set and History Log, and no pending layout.
C5_LayoutClearOnConfirm ==
  hasCards(Cur) =>
    \A r \in DimArgs, c \in DimArgs :
      LET s2 == confirmLayoutChange(handleLayoutChange(Cur, r, c))
      IN /\ s2.rows = r
         /\ s2.cols = c
         /\ s2.grid = <<>>
         /\ s2.lockedCells = {}
         /\ s2.history = <<>>
         /\ s2.pendingLayout = NoLayout

\* C5 witness: a layout was requested over a grid holding locked cards, and
\* is staged for confirmation.
C5_Witness ==
  /\ hasCards(Cur)
  /\ lockedCells # {}
  /\ showWarning
  /\ ~pendingLayout.none
  /\ pendingLayout.cols # cols

InBounds(n) == n \in 1..10

Clamp(n) == IF n < 1 THEN 1 ELSE IF n > 10 THEN 10 ELSE n

\* the dimensions setLayout leaves in force or staged
Requested(s) ==
  IF s.pendingLayout.none
    THEN [rows |-> s.rows, cols |-> s.cols]
    ELSE [rows |-> s.pendingLayout.rows, cols |-> s.pendingLayout.cols]

\* C6: layout bounds: active and pending rows and cols are within [1, 10],
\* and a number typed outside that range is coerced to the nearest bound.
C6_LayoutBounds ==
  /\ InBounds(rows) /\ InBounds(cols)
  /\ pendingLayout.none
       \/ (InBounds(pendingLayout.rows) /\ InBounds(pendingLayout.cols))
  /\ \A txt \in TypedTexts :
       ~parseInt(txt).nan =>
         /\ Requested(rowsOnChange(Cur, txt)).rows
              = Clamp(parseInt(txt).val)
         /\ Requested(colsOnChange(Cur, txt)).cols
              = Clamp(parseInt(txt).val)

\* C7: grid bounds invariant: every key of Grid Store is a cell index within
\* [0, rows * cols) of the active layout.
C7_GridBounds ==
  \A k \in GridKeys(grid) : 0 <= k /\ k < rows * cols

\* C8: lock-implies-occupied invariant: every locked cell is occupied.
C8_LockImpliesOccupied ==
  \A c \in lockedCells : GridHas(grid, c)

\* C8 witness: a pair was locked and then undone while another cell stays
\* locked: locks were set and cleared.
C8_Witness ==
  /\ lockedCells # {}
  /\ \E c \in GridKeys(grid) : c \notin lockedCells
  /\ Len(history) >= 2
  /\ undo(Cur).lockedCells # lockedCells

\* C9: the stores are cleared together at layout selection: every step that
\* changes the active rows or cols ends with Grid Store, Lock Set and History
\* Log all empty.
C9_ClearedTogether ==
  [][ (rows' # rows \/ cols' # cols)
        => (grid' = <<>> /\ lockedCells' = {} /\ history' = <<>>) ]_vars

\* C10: lock token placement: place(c, lock token) on an unlocked cell writes
\* the lock token to c, locks c and no other cell, appends one Add / Replace
\* entry without partner, and a following remove(c) changes nothing.
C10_LockTokenPlacement ==
  \A c \in cells(Cur) \ lockedCells :
    LET s1 == place(Cur, c, LockId)
        e == s1.history[Len(s1.history)]
    IN /\ GridGet(s1.grid, c) = LockId
       /\ s1.lockedCells = lockedCells \cup {c}
       /\ Len(s1.history) = Len(history) + 1
       /\ SubSeq(s1.history, 1, Len(history)) = history
       /\ e.type = (IF GridHas(grid, c) THEN "replace" ELSE "add")
       /\ e.cellId = c /\ e.card = LockId /\ e.lockedCellId = Null
       /\ remove(s1, c) = s1

\* C11: the token catalog holds the lock token (id "lock"), so that a cell
\* occupied by the lock token is reachable.
C11_LockTokenInCatalog ==
  /\ InCatalog(LockId)
  /\ \A c \in cells(Cur) \ lockedCells :
       GridGet(place(Cur, c, LockId).grid, c) = LockId

\* no cell ever holds the lock token: the state C11 calls reachable is not
C11_NoCellHoldsLockToken ==
  /\ \A c \in GridKeys(grid) : GridGet(grid, c) # LockId
  /\ selectedCard # LockId
  /\ \A i \in 1..Len(history) :
       history[i].card # LockId /\ history[i].previousCard # LockId

\* C12: undo() with an empty History Log changes neither Grid Store, Lock Set,
\* History Log, layout nor pending layout.
C12_UndoEmptyNoOp ==
  history = <<>> =>
    LET s1 == undo(Cur)
    IN /\ s1.grid = grid
       /\ s1.lockedCells = lockedCells
       /\ s1.history = history
       /\ s1.rows = rows /\ s1.cols = cols
       /\ s1.pendingLayout = pendingLayout
       /\ s1.showWarning = showWarning

\* C12 witness: the History Log was emptied again while a layout is staged,
\* and undo is called on it.
C12_Witness ==
  /\ history = <<>>
  /\ ~pendingLayout.none
  /\ undo(Cur).history = <<>>

\* the grid entry of cell c, NoCard when c is empty
CellOf(s, c) == GridGet(s.grid, c)

\* s1 is s with the inverse of entry e applied and nothing else: the cell of
\* e holds what it held before e, every other cell is untouched, the lock
\* flags of the cell of e and of its partner are cleared for a paired or
\* lock-token placement, and no other lock flag changes
InverseOnly(s, s1, e) ==
  /\ CellOf(s1, e.cellId) =
       (IF e.type = "add" THEN NoCard
        ELSE IF e.type = "remove" THEN e.card ELSE e.previousCard)
  /\ \A c \in (GridKeys(s.grid) \cup GridKeys(s1.grid)) \ {e.cellId} :
       CellOf(s1, c) = CellOf(s, c)
  /\ s1.lockedCells =
       (IF e.type = "remove" THEN s.lockedCells
        ELSE IF e.lockedCellId # Null
          THEN s.lockedCells \ {e.cellId, e.lockedCellId}
        ELSE IF e.card = LockId THEN s.lockedCells \ {e.cellId}
        ELSE s.lockedCells)
  /\ s1.rows = s.rows /\ s1.cols = s.cols
  /\ s1.pendingLayout = s.pendingLayout

\* C13: strict LIFO undo: undo() on a non-empty History Log removes exactly
\* the last entry, keeps the earlier ones in order, and applies the inverse
\* of that entry only.
C13_StrictLifoUndo ==
  history # <<>> =>
    LET s1 == undo(Cur)
    IN /\ s1.history = SubSeq(history, 1, Len(history) - 1)
       /\ InverseOnly(Cur, s1, history[Len(history)])

\* C13 witness: the log holds two entries about different cells, the last
\* one with a partner, and undo pops it.
C13_Witness ==
  /\ Len(history) >= 2
  /\ history[Len(history)].lockedCellId # Null
  /\ history[1].cellId # history[Len(history)].cellId
  /\ Len(undo(Cur).history) = Len(history) - 1

\* C14: toggleLock(c) changes neither History Log nor Grid Store, only Lock
\* Set.
C14_ToggleLockFrame ==
  \A c \in cells(Cur) :
    toggleLock(Cur, c) = [Cur EXCEPT !.lockedCells = toggleLock(Cur, c).lockedCells]

\* C14 witness: a locked pair exists and toggleLock on one of its cells
\* releases it.
C14_Witness ==
  /\ history # <<>>
  /\ \E c \in lockedCells \cap cells(Cur) :
       /\ GridHas(grid, c)
       /\ Cardinality(lockedCells \ toggleLock(Cur, c).lockedCells) = 2

\* C15: reset() gives an empty Grid Store, Lock Set and History Log and
\* leaves the active rows and cols unchanged.
C15_ResetClears ==
  LET s1 == handleReset(Cur)
  IN /\ s1.grid = <<>>
     /\ s1.lockedCells = {}
     /\ s1.history = <<>>
     /\ s1.rows = rows /\ s1.cols = cols

\* C15 witness: reset is called with cards on the grid, cells locked, a
\* non-empty log and a layout other than the initial one.
C15_Witness ==
  /\ hasCards(Cur)
  /\ lockedCells # {}
  /\ history # <<>>
  /\ cols # 4
  /\ ~hasCards(handleReset(Cur))

\* setLayout(r, c) as issued by the select and by the two number inputs
setLayout(s, r, c) == handleLayoutChange(s, r, c)

\* setLayout(r, c) on a non-empty Grid Store, from the select or from a
\* number input, stages (r, c) and leaves layout and stores as they are
StagesOnly ==
  hasCards(Cur) =>
    /\ \A r \in DimArgs, c \in DimArgs :
         LET s1 == setLayout(Cur, r, c)
         IN /\ s1.pendingLayout = Layout(r, c)
            /\ s1.rows = rows /\ s1.cols = cols
            /\ s1.grid = grid
            /\ s1.lockedCells = lockedCells
            /\ s1.history = history
    /\ \A txt \in TypedTexts :
         LET s1 == rowsOnChange(Cur, txt)
             s2 == colsOnChange(Cur, txt)
         IN /\ s1.rows = rows /\ s1.cols = cols
            /\ s2.rows = rows /\ s2.cols = cols

\* C16: layout change needs confirmation when the grid is occupied:
\* setLayout(r, c) with a non-empty Grid Store only stages (r, c) as pending,
\* and no step taken from a state with a non-empty Grid Store changes the
\* active rows or cols unless it is confirmPendingLayout.
C16_ConfirmationNeeded ==
  /\ []StagesOnly
  /\ [][ (hasCards(Cur) /\ (rows' # rows \/ cols' # cols))
           => (~pendingLayout.none /\ Commit(confirmLayoutChange(Cur))) ]_vars

\* C16 witness: with cards on the grid and entries in the log a layout other
\* than the active one is staged and the active one is still in force.
C16_Witness ==
  /\ hasCards(Cur)
  /\ history # <<>>
  /\ ~pendingLayout.none
  /\ pendingLayout.cols # cols
  /\ cols = 4

\* C17: setLayout(r, c) with an empty Grid Store applies (r, c) at once and
\* leaves no confirmation outstanding: no pending layout, no warning shown.
C17_ImmediateWhenEmpty ==
  ~hasCards(Cur) =>
    \A r \in DimArgs, c \in DimArgs :
      LET s1 == setLayout(Cur, r, c)
      IN /\ s1.rows = r /\ s1.cols = c
         /\ s1.pendingLayout.none
         /\ ~s1.showWarning

\* the occupied, unlocked cells other than c holding a token with id T
Candidates(s, c, T) ==
  { d \in GridKeys(s.grid) \ (s.lockedCells \cup {c}) :
      GridGet(s.grid, d) = T }

\* the three stores of two states agree
SameThreeStores(a, b) ==
  /\ a.grid = b.grid
  /\ a.lockedCells = b.lockedCells
  /\ a.history = b.history

\* the pool click on card T followed by the click on cell c; the pool click
\* toggles, so it deselects T when T is the selected card
placeByClick(s, c, T) == handleCellClick(handleCardClick(s, T), c)

\* placing card T at cell c by a drag: the drag starts on T and ends over c
placeByDrag(s, c, T) == handleDragEnd(handleDragStart(s, T), T, c)

\* C18: input-modality parity: from the same state, cell and token, placing
\* by drag-release and placing by click with that token selected (the cell
\* click alone when T is the selected card already, the pool click on T and
\* then the cell click otherwise) give the same Grid Store, Lock Set and
\* History Log, the no-op on a locked cell included.
C18_ModalityParity ==
  \A c \in cells(Cur), T \in TriedTokens :
    SameThreeStores(placeByDrag(Cur, c, T),
                    IF selectedCard = T THEN handleCellClick(Cur, c)
                    ELSE placeByClick(Cur, c, T))

\* C18 witness: a card is selected and some unlocked cell holds the same
\* card, so that the click and the drop on another cell both pair the two.
C18_Witness ==
  /\ selectedCard # NoCard
  /\ \E c \in cells(Cur) \ lockedCells :
       /\ Candidates(Cur, c, selectedCard) # {}
       /\ Cardinality(handleCellClick(Cur, c).lockedCells \ lockedCells) = 2
       /\ placeByDrag(Cur, c, selectedCard).lockedCells
            = handleCellClick(Cur, c).lockedCells

\* h1 is h with exactly one entry appended
OneAppended(h, h1) ==
  /\ Len(h1) = Len(h) + 1
  /\ SubSeq(h1, 1, Len(h)) = h

\* C19: every place on an unlocked cell and every remove on an occupied
\* unlocked cell appends exactly one entry: Add for a place on an empty cell,
\* Replace carrying the previous occupant for a place on an occupied cell,
\* Remove carrying the removed token for a remove.
C19_OneEntryAppended ==
  \A c \in cells(Cur) \ lockedCells :
    /\ \A T \in TriedTokens :
         LET s1 == place(Cur, c, T)
             e == s1.history[Len(s1.history)]
         IN /\ OneAppended(history, s1.history)
            /\ e.cellId = c /\ e.card = T
            /\ IF GridHas(grid, c)
                 THEN e.type = "replace" /\ e.previousCard = GridGet(grid, c)
                 ELSE e.type = "add" /\ e.previousCard = NoCard
    /\ GridHas(grid, c) =>
         LET s1 == remove(Cur, c)
             e == s1.history[Len(s1.history)]
         IN /\ OneAppended(history, s1.history)
            /\ e.type = "remove"
            /\ e.cellId = c /\ e.card = GridGet(grid, c)

\* C19 witness: the log is not empty, an unlocked cell is occupied (Replace
\* and Remove apply) and an unlocked cell is empty (Add applies).
C19_Witness ==
  /\ history # <<>>
  /\ \E c \in cells(Cur) \ lockedCells :
       /\ GridHas(grid, c)
       /\ place(Cur, c, CARD_ICONS[2]).history[Len(history) + 1].type
            = "replace"
       /\ remove(Cur, c).history[Len(history) + 1].type = "remove"
  /\ \E c \in cells(Cur) \ lockedCells :
       /\ ~GridHas(grid, c)
       /\ place(Cur, c, CARD_ICONS[2]).history[Len(history) + 1].type = "add"

\* C20: matching rule of place: placing a non-lock token T on an unlocked
\* cell c locks c and exactly one other cell m iff some other occupied,
\* unlocked cell holds T; m is such a cell and is the entry's partner;
\* otherwise Lock Set is unchanged and no partner is recorded; the lock flag
\* of every cell other than c and m is unchanged.
C20_MatchingRule ==
  \A c \in cells(Cur) \ lockedCells, T \in TriedTokens :
    LET s1 == place(Cur, c, T)
        e == s1.history[Len(s1.history)]
    IN IF Candidates(Cur, c, T) # {}
         THEN /\ e.lockedCellId \in Candidates(Cur, c, T)
              /\ s1.lockedCells = lockedCells \cup {c, e.lockedCellId}
         ELSE /\ e.lockedCellId = Null
              /\ s1.lockedCells = lockedCells

\* C20 witness: two unlocked cells hold the same token, so a place of that
\* token on a third cell has two candidates; and a locked cell exists.
C20_Witness ==
  \E c \in cells(Cur) \ lockedCells, T \in PoolCards :
    /\ Cardinality(Candidates(Cur, c, T)) >= 2
    /\ place(Cur, c, T).history[Len(history) + 1].lockedCellId # Null

\* the keys of the grid in the order Object.entries enumerates them
KeyOrder(g) == [ i \in 1..Len(g) |-> g[i].cell ]

\* the cell of S that comes first in the iteration order of grid g
FirstInOrder(g, S) ==
  g[CHOOSE i \in 1..Len(g) :
      /\ g[i].cell \in S
      /\ \A j \in 1..(i - 1) : g[j].cell \notin S].cell

\* C21: tie-break of the matching search: among several unlocked cells
\* holding the placed id, place pairs with the first in Grid Store iteration
\* order; a replace keeps a key's position, a remove followed by a
\* re-insertion (by place or by undo) moves the key to the end.
C21_TieBreak ==
  \A c \in cells(Cur) \ lockedCells :
    /\ \A T \in PoolCards :
         LET s1 == place(Cur, c, T)
         IN /\ Candidates(Cur, c, T) # {} =>
                 s1.history[Len(history) + 1].lockedCellId
                   = FirstInOrder(grid, Candidates(Cur, c, T))
            /\ GridHas(grid, c) => KeyOrder(s1.grid) = KeyOrder(grid)
    /\ GridHas(grid, c) =>
         LET s2 == remove(Cur, c)
             moved == Append(KeyOrder(s2.grid), c)
         IN /\ KeyOrder(undo(s2).grid) = moved
            /\ \A T \in PoolCards : KeyOrder(place(s2, c, T).grid) = moved

\* C21 witness: a place has two candidates and the first in iteration order
\* is not the one with the lowest cell index.
C21_Witness ==
  \E c \in cells(Cur) \ lockedCells, T \in PoolCards :
    LET cand == Candidates(Cur, c, T)
    IN /\ Cardinality(cand) >= 2
       /\ \E d \in cand : d < FirstInOrder(grid, cand)
       /\ place(Cur, c, T).history[Len(history) + 1].lockedCellId
            = FirstInOrder(grid, cand)

\* the locked cells other than c holding a token with id T
LockedHolders(s, c, T) ==
  { d \in GridKeys(s.grid) \cap (s.lockedCells \ {c}) :
      GridGet(s.grid, d) = T }

\* C22: remove(c) on an occupied unlocked cell holding a non-lock token T
\* deletes c from Grid Store, leaves every other entry unchanged, and unlocks
\* the first locked cell holding T, recorded as partner, if there is one;
\* otherwise Lock Set is unchanged.
C22_RemoveRule ==
  \A c \in (cells(Cur) \cap GridKeys(grid)) \ lockedCells :
    LET T == GridGet(grid, c)
        s1 == remove(Cur, c)
        e == s1.history[Len(s1.history)]
        L == LockedHolders(Cur, c, T)
    IN T # LockId =>
         /\ GridMap(s1.grid) = GridMap(grid) \ { <<c, T>> }
         /\ ~GridHas(s1.grid, c)
         /\ IF L # {}
              THEN /\ e.lockedCellId = FirstInOrder(grid, L)
                   /\ s1.lockedCells = lockedCells \ {e.lockedCellId}
              ELSE /\ e.lockedCellId = Null
                   /\ s1.lockedCells = lockedCells

\* C22 witness: an unlocked cell holds a token that a locked cell holds too,
\* and removing it unlocks that cell.
C22_Witness ==
  \E c \in (cells(Cur) \cap GridKeys(grid)) \ lockedCells :
    /\ LockedHolders(Cur, c, GridGet(grid, c)) # {}
    /\ remove(Cur, c).lockedCells # lockedCells

\* C24: toggleLock(c) on a locked cell unlocks c and, when c holds a non-lock
\* token, exactly one other locked cell holding the same id if any, the first
\* in iteration order; when c holds the lock token only c; every other cell's
\* lock flag is unchanged.
C24_ToggleLockRule ==
  \A c \in lockedCells \cap cells(Cur) :
    LET T == GridGet(grid, c)
        L == LockedHolders(Cur, c, T)
    IN toggleLock(Cur, c).lockedCells =
         (IF T # NoCard /\ T # LockId /\ L # {}
            THEN lockedCells \ {c, FirstInOrder(grid, L)}
            ELSE lockedCells \ {c})

\* C24 witness: a locked cell has two other locked holders of its token, the
\* first of them in iteration order is not the one with the lowest index, and
\* toggleLock unlocks the cell and that first holder while the other holder
\* stays locked.
C24_Witness ==
  \E c \in lockedCells \cap cells(Cur) :
    LET L == LockedHolders(Cur, c, GridGet(grid, c))
    IN /\ Cardinality(L) >= 2
       /\ \E d \in L : d < FirstInOrder(grid, L)
       /\ toggleLock(Cur, c).lockedCells = L \ {FirstInOrder(grid, L)}
       /\ toggleLock(Cur, c).lockedCells # {}

\* C25: toggleLock(c) on a cell that is not locked, empty or occupied,
\* changes nothing; toggleLock never locks a cell, and applied twice in a row
\* it gives what it gives applied once.
C25_ToggleUnlockedNoOp ==
  \A c \in cells(Cur) :
    LET s1 == toggleLock(Cur, c)
    IN /\ c \notin lockedCells => s1 = Cur
       /\ s1.lockedCells \subseteq lockedCells
       /\ toggleLock(s1, c) = s1

\* C25 witness: an occupied cell and an empty cell are both unlocked and
\* toggleLock on either gives the state back.
C25_Witness ==
  /\ \E c \in (cells(Cur) \cap GridKeys(grid)) \ lockedCells :
       toggleLock(Cur, c).lockedCells = lockedCells
  /\ \E c \in cells(Cur) \ GridKeys(grid) :
       toggleLock(Cur, c).lockedCells = lockedCells
  /\ history # <<>>

\* C26: place / undo round trip: place(c, t) on an unlocked cell followed at
\* once by undo() restores Grid Store contents, Lock Set and History Log.
C26_PlaceUndoRoundTrip ==
  \A c \in cells(Cur) \ lockedCells, T \in PoolCards :
    LET s2 == undo(place(Cur, c, T))
    IN /\ GridMap(s2.grid) = GridMap(grid)
       /\ s2.lockedCells = lockedCells
       /\ s2.history = history

\* C26 witness: an occupied unlocked cell can be overwritten with a token
\* that another unlocked cell holds: a Replace that locks a pair, then undone.
C26_Witness ==
  \E c \in (cells(Cur) \cap GridKeys(grid)) \ lockedCells, T \in PoolCards :
    /\ T # GridGet(grid, c)
    /\ Candidates(Cur, c, T) # {}
    /\ place(Cur, c, T).lockedCells # lockedCells
    /\ undo(place(Cur, c, T)).lockedCells = lockedCells

\* C27: remove / undo round trip: remove(c) on an occupied unlocked cell
\* followed at once by undo() restores Grid Store contents and Lock Set, the
\* lock flag of a partner the remove unlocked included.
C27_RemoveUndoRoundTrip ==
  \A c \in (cells(Cur) \cap GridKeys(grid)) \ lockedCells :
    SameGridAndLocks(undo(remove(Cur, c)), Cur)

\* C28: cancelPendingLayout() clears the pending layout and the warning and
\* leaves active rows / cols, Grid Store, Lock Set and History Log unchanged.
C28_CancelFrame ==
  LET s1 == cancelLayoutChange(Cur)
  IN /\ s1.pendingLayout.none
     /\ ~s1.showWarning
     /\ s1.rows = rows /\ s1.cols = cols
     /\ s1.grid = grid
     /\ s1.lockedCells = lockedCells
     /\ s1.history = history

\* C28 witness: a layout is staged over an occupied grid while a card is
\* selected, and cancel drops it.
C28_Witness ==
  /\ showWarning
  /\ ~pendingLayout.none
  /\ hasCards(Cur)
  /\ selectedCard # NoCard
  /\ cancelLayoutChange(Cur).pendingLayout.none

\* the effect of a history entry on the grid: Add / Replace write the entry's
\* token to its cell, Remove deletes its cell
ApplyEntry(g, e) ==
  IF e.type = "remove" THEN GridDelete(g, e.cellId)
  ELSE GridSet(g, e.cellId, e.card)

\* the entries of h applied in order to grid g
RECURSIVE Replay(_, _)
Replay(g, h) ==
  IF h = <<>> THEN g ELSE Replay(ApplyEntry(g, Head(h)), Tail(h))

\* C29: the History Log is a complete audit trail of the grid: Grid Store
\* contents equal the entries of the log applied in order to an empty grid.
C29_AuditTrail ==
  GridMap(grid) = GridMap(Replay(<<>>, history))

\* C29 witness: the log holds a Remove followed by a placement and the grid
\* is not empty.
C29_Witness ==
  /\ hasCards(Cur)
  /\ \E i \in 1..Len(history) :
       /\ history[i].type = "remove"
       /\ \E j \in (i + 1)..Len(history) : history[j].type # "remove"

\* undo() called until the log is empty
RECURSIVE UndoAll(_)
UndoAll(s) == IF s.history = <<>> THEN s ELSE UndoAll(undo(s))

\* C30: whenever History Log is empty Grid Store and Lock Set are empty, so
\* undo() repeated until the log is empty ends on a blank, unlocked board.
C30_EmptyLogBlankBoard ==
  /\ history = <<>> => (grid = <<>> /\ lockedCells = {})
  /\ UndoAll(Cur).grid = <<>>
  /\ UndoAll(Cur).lockedCells = {}

\* C30 witness: the log was emptied by undo or reset after a layout was
\* staged over cards, and the board is blank.
C30_Witness ==
  /\ history = <<>>
  /\ showWarning
  /\ grid = <<>>
  /\ lockedCells = {}

\* C31: undo() never locks a cell: the locked cells after an undo() are a
\* subset of those before it, and every Remove entry is recorded with
\* wasLocked = false.
C31_UndoNeverLocks ==
  /\ undo(Cur).lockedCells \subseteq lockedCells
  /\ \A i \in 1..Len(history) :
       history[i].type = "remove" => ~history[i].wasLocked

\* C31 witness: the last entry is a Remove, and undo puts the card back
\* without locking its cell.
C31_Witness ==
  /\ history # <<>>
  /\ history[Len(history)].type = "remove"
  /\ GridHas(undo(Cur).grid, history[Len(history)].cellId)
  /\ history[Len(history)].cellId \notin undo(Cur).lockedCells

\* C32: the confirmation warning is shown if and only if a pending layout is
\* staged.
C32_WarningIffPending ==
  showWarning <=> ~pendingLayout.none

\* C32 witness: a layout is staged and the warning shown while cells are
\* locked and a card is selected.
C32_Witness ==
  /\ showWarning
  /\ ~pendingLayout.none
  /\ lockedCells # {}
  /\ selectedCard # NoCard

====
